---- MODULE Spec2Model ----
(***************************************************************************)
(* Face processing service (face-processing-service/app.py).               *)
(*                                                                         *)
(* One shared FaceProcessor (fp) is built at startup; worker threads serve *)
(* POST /process-face and run FaceProcessor.process_image step by step.    *)
(* The external collaborators (base64, the OpenCV decoder, the Haar        *)
(* cascade, the ONNX session) are modelled by what they do on the inputs   *)
(* enumerated below.  Real numbers are exact rationals [n, d], d > 0.      *)
(***************************************************************************)
EXTENDS Integers, Sequences, FiniteSets, TLC

VARIABLES fp, req, probe

vars == <<fp, req, probe>>

(***************************************************************************)
(* Bounds.                                                                 *)
(***************************************************************************)
NumWorkers == 2
MaxDim == 7
MaxFaces == 3
MaxSide == 2

Workers == 1..NumWorkers

(***************************************************************************)
(* Program constants.                                                      *)
(***************************************************************************)
FaceSize == 112
PadNum == 2
PadDen == 10
SharpnessNorm == 1000
MidGray == 128
ContrastNorm == 64
MaxGray == 255
WSharp == 5
WBright == 3
WContrast == 2
WDen == 10

None == [none |-> TRUE]

Rat(n, d) == [n |-> n, d |-> d]
RatLE(a, b) == a.n * b.d <= b.n * a.d
RatLT(a, b) == a.n * b.d < b.n * a.d
RatEQ(a, b) == a.n * b.d = b.n * a.d

Abs(i) == IF i < 0 THEN -i ELSE i
Min(a, b) == IF a <= b THEN a ELSE b
Max(a, b) == IF a >= b THEN a ELSE b

Ok(v) == [ok |-> TRUE, val |-> v]
Raise(t, m) == [ok |-> FALSE, type |-> t, msg |-> m]

(***************************************************************************)
(* Startup: FaceProcessor.__init__ / load_models.  main() exits when       *)
(* loading fails, so every served request sees the loaded processor.       *)
(***************************************************************************)
LoadedProcessor ==
    [model_path |-> "mobilefacenet.onnx", session |-> "mobilefacenet",
     face_cascade |-> "haarcascade_frontalface_default"]

(***************************************************************************)
(* Images the decoder can produce.  Each is identified by a letter; what   *)
(* the cascade, the pixel statistics and the embedding model yield on it   *)
(* is a fixed function of the image (no randomness in any collaborator).   *)
(*   A one centred face          B blank, no face                          *)
(*   C three faces, two tied     D face on which the model outputs zeros   *)
(*   E cascade raises            F resize raises                           *)
(*   G grayscale analysis raises H colour conversion raises                *)
(*   I inference raises                                                    *)
(***************************************************************************)
ImageIds == {"A", "B", "C", "D", "E", "F", "G", "H", "I"}

Image(k) == [id |-> k, W |-> 200, H |-> IF k = "C" THEN 240 ELSE 200]

Box(x, y, w, h) == <<x, y, w, h>>

CascadeFaces(k) ==
    CASE k = "B" -> << >>
      [] k = "C" -> << Box(0, 0, 80, 80), Box(10, 10, 80, 100),
                       Box(100, 90, 100, 80) >>
      [] k = "E" -> << >>
      [] OTHER   -> << Box(50, 50, 100, 100) >>

FaultAt(k) ==
    CASE k = "E" -> "detect"
      [] k = "F" -> "align"
      [] k = "G" -> "score"
      [] k = "H" -> "preprocess"
      [] k = "I" -> "embed"
      [] OTHER   -> "none"

\* grayscale statistics of the aligned crop: Laplacian variance, mean, std
FaceStats(k) ==
    CASE k = "A" -> [lap |-> 1500, mean |-> 128, std |-> 70]
      [] k = "C" -> [lap |-> 400, mean |-> 90, std |-> 32]
      [] OTHER   -> [lap |-> 0, mean |-> 255, std |-> 0]

\* raw output of the embedding model (batch of one vector)
ModelOutput(k) ==
    CASE k = "A" -> <<3, 4>>
      [] k = "C" -> <<1, -2>>
      [] k = "D" -> <<0, 0>>
      [] OTHER   -> <<5, 12>>

(***************************************************************************)
(* Text is a sequence of one-character strings.  A JPEG file starts with   *)
(* the bytes FF D8 FF, which base64 writes "/9j/"; the character after the *)
(* signature selects the picture, the rest fills the last group of four.   *)
(***************************************************************************)
B64Alphabet ==
    {"A","B","C","D","E","F","G","H","I","J","K","L","M","N","O","P","Q",
     "R","S","T","U","V","W","X","Y","Z","a","b","c","d","e","f","g","h",
     "i","j","k","l","m","n","o","p","q","r","s","t","u","v","w","x","y",
     "z","0","1","2","3","4","5","6","7","8","9","+","/"}

JpegMagic == <<"/", "9", "j", "/">>

JpegPayload(k) == JpegMagic \o <<k, "A", "A", "A">>

DataUriJpeg ==
    <<"d","a","t","a",":","i","m","a","g","e","/","j","p","e","g",";",
      "b","a","s","e","6","4",",">>

DataUriPng ==
    <<"d","a","t","a",":","i","m","a","g","e","/","p","n","g",";",
      "b","a","s","e","6","4",",">>

Str(chars) == [t |-> "str", chars |-> chars]
Num(i) == [t |-> "int", num |-> i]

\* base64.b64decode(s) with validate=False: characters outside the alphabet
\* are discarded, then the data characters must fill whole groups of four.
\* The decoded bytes are kept as their sextets (4 sextets = 3 bytes).
b64decode(v) ==
    IF v.t # "str"
    THEN Raise("TypeError", "argument should be a bytes-like object or ASCII string")
    ELSE LET data == SelectSeq(v.chars, LAMBDA c : c \in B64Alphabet)
         IN  IF Len(data) % 4 = 1
             THEN Raise("binascii.Error", "Invalid base64-encoded string")
             ELSE IF Len(data) % 4 # 0
             THEN Raise("binascii.Error", "Incorrect padding")
             ELSE Ok(data)

\* cv2.imdecode: the container is recognised by the signature at the start
\* of the buffer; an unrecognised or damaged buffer yields None.
imdecode(buf) ==
    IF Len(buf) = 0
    THEN Raise("cv2.error", "(-215:Assertion failed) !buf.empty()")
    ELSE IF /\ Len(buf) >= 8
            /\ SubSeq(buf, 1, 4) = JpegMagic
            /\ buf[5] \in ImageIds
         THEN Ok(Image(buf[5]))
         ELSE Ok(None)

\* process_image lines 262-268
DecodeImage(image_data) ==
    LET image_bytes == b64decode(image_data) IN
    IF ~image_bytes.ok THEN image_bytes
    ELSE LET image == imdecode(image_bytes.val) IN
         IF ~image.ok THEN image
         ELSE IF image.val = None
              THEN Raise("ValueError", "Failed to decode image")
              ELSE image

\* FaceProcessor.detect_faces: any exception degrades to the empty list
detect_faces(proc, image) ==
    IF proc.face_cascade = "None" \/ FaultAt(image.id) = "detect"
    THEN << >>
    ELSE CascadeFaces(image.id)

Area(f) == f[3] * f[4]

\* a scan that lets a later box of equal area replace the running best
RECURSIVE MaxFromLast(_, _, _)
MaxFromLast(faces, i, best) ==
    IF i > Len(faces) THEN best
    ELSE MaxFromLast(faces, i + 1,
                     IF Area(faces[i]) >= Area(best) THEN faces[i] ELSE best)

\* Python's max(faces, key=...): the running best is replaced only by a
\* strictly greater key.
RECURSIVE MaxFrom(_, _, _)
MaxFrom(faces, i, best) ==
    IF i > Len(faces) THEN best
    ELSE MaxFrom(faces, i + 1,
                 IF Area(faces[i]) > Area(best) THEN faces[i] ELSE best)

LargestFace(faces) == MaxFrom(faces, 2, faces[1])

Padding(w, h) == (PadNum * Min(w, h)) \div PadDen

\* the padded box without the max(0, .) and min(size, .) clamps
CropRectUnclamped(W, H, rect) ==
    LET padding == Padding(rect[3], rect[4])
    IN  [x1 |-> rect[1] - padding, y1 |-> rect[2] - padding,
         x2 |-> rect[1] + rect[3] + padding, y2 |-> rect[2] + rect[4] + padding]

\* align_face lines 146-153
CropRect(W, H, rect) ==
    LET x == rect[1]
        y == rect[2]
        w == rect[3]
        h == rect[4]
        padding == Padding(w, h)
    IN  [x1 |-> Max(0, x - padding), y1 |-> Max(0, y - padding),
         x2 |-> Min(W, x + w + padding), y2 |-> Min(H, y + h + padding)]

\* cv2.resize(face, (112, 112)): fails on an empty source
Resize(id, crop) ==
    IF crop.x2 <= crop.x1 \/ crop.y2 <= crop.y1
    THEN Raise("cv2.error", "(-215:Assertion failed) !ssize.empty()")
    ELSE Ok([src |-> id, crop |-> crop, width |-> FaceSize, height |-> FaceSize])

\* FaceProcessor.align_face
align_face(image, face_rect) ==
    IF FaultAt(image.id) = "align"
    THEN Raise("cv2.error", "resize failed")
    ELSE Resize(image.id, CropRect(image.W, image.H, face_rect))

\* the score with the sharpness term left unclamped
QualityScoreUnclamped(st) ==
    Rat(WSharp * st.lap * MidGray * ContrastNorm
        + WBright * (MidGray - Abs(st.mean - MidGray)) * SharpnessNorm * ContrastNorm
        + WContrast * Min(st.std, ContrastNorm) * SharpnessNorm * MidGray,
        WDen * SharpnessNorm * MidGray * ContrastNorm)

\* a brightness term centred on the middle of the 8-bit range, 127.5
BrightnessScoreMidRange(mean) ==
    Rat(MaxGray - Abs(2 * mean - MaxGray), MaxGray)

\* brightness_score = 1.0 - abs(brightness - 128) / 128.0
BrightnessScore(mean) == Rat(MidGray - Abs(mean - MidGray), MidGray)

\* quality_score = 0.5*sharpness + 0.3*brightness + 0.2*contrast, exactly,
\* over the common denominator 10 * 1000 * 128 * 64
QualityScore(st) ==
    LET sharpness  == Min(st.lap, SharpnessNorm)
        brightness == BrightnessScore(st.mean).n
        contrast   == Min(st.std, ContrastNorm)
    IN  Rat(WSharp * sharpness * MidGray * ContrastNorm
            + WBright * brightness * SharpnessNorm * ContrastNorm
            + WContrast * contrast * SharpnessNorm * MidGray,
            WDen * SharpnessNorm * MidGray * ContrastNorm)

\* FaceProcessor.assess_face_quality
assess_face_quality(face) ==
    IF FaultAt(face.src) = "score"
    THEN Raise("cv2.error", "cvtColor failed")
    ELSE Ok(QualityScore(FaceStats(face.src)))

\* FaceProcessor.preprocess_face
preprocess_face(face) ==
    IF FaultAt(face.src) = "preprocess"
    THEN Raise("cv2.error", "cvtColor failed")
    ELSE Ok([of |-> face.src, layout |-> "CHW",
             shape |-> <<1, 3, FaceSize, FaceSize>>])

RECURSIVE SumSq(_)
SumSq(v) == IF v = << >> THEN 0 ELSE Head(v) * Head(v) + SumSq(Tail(v))

\* one component of embedding / norm, the norm kept as its square; numpy
\* float division 0/0 yields NaN (a warning, no exception)
Divide(x, normSq) ==
    IF normSq = 0
    THEN [kind |-> IF x = 0 THEN "nan" ELSE "inf", v |-> 0, normSq |-> 0]
    ELSE [kind |-> "num", v |-> x, normSq |-> normSq]

\* FaceProcessor.get_embedding
get_embedding(proc, face_input) ==
    IF proc.session # "mobilefacenet"
    THEN Raise("AttributeError", "'NoneType' object has no attribute 'get_inputs'")
    ELSE IF FaultAt(face_input.of) = "embed"
    THEN Raise("InvalidArgument", "Got invalid dimensions for input")
    ELSE LET embedding == ModelOutput(face_input.of)
             normSq == SumSq(embedding)
         IN  Ok([i \in 1..Len(embedding) |-> Divide(embedding[i], normSq)])

\* process_image lines 295-301
FaceCenter(rect) == <<Rat(2 * rect[1] + rect[3], 2), Rat(2 * rect[2] + rect[4], 2)>>

\* the offset normalised by the half dimension, range -1..1
CenterOffsetHalfDim(W, H, rect) ==
    <<Rat(2 * rect[1] + rect[3] - W, W), Rat(2 * rect[2] + rect[4] - H, H)>>

CenterOffset(W, H, rect) ==
    <<Rat(2 * rect[1] + rect[3] - W, 2 * W), Rat(2 * rect[2] + rect[4] - H, 2 * H)>>

BoxRatio(W, H, rect) == Rat(rect[3] * rect[4], W * H)

\* process_image lines 303-322
Detected(image, largest_face, aligned_face, quality_score, embedding, rfi) ==
    LET result ==
          [face_detected |-> TRUE, embedding |-> embedding,
           quality_score |-> quality_score, processing_time |-> "elapsed",
           bbox |-> largest_face, image_size |-> <<image.W, image.H>>,
           face_center |-> FaceCenter(largest_face),
           center_offset |-> CenterOffset(image.W, image.H, largest_face),
           box_ratio |-> BoxRatio(image.W, image.H, largest_face)]
    IN  IF rfi THEN result @@ [face_image |-> aligned_face] ELSE result

\* process_image lines 273-278
NoFace ==
    [face_detected |-> FALSE, error |-> "No face detected in image",
     processing_time |-> "elapsed"]

\* process_image lines 324-330
NotDetected(e) ==
    [face_detected |-> FALSE, error |-> e.msg, processing_time |-> "elapsed"]

\* FaceProcessor.process_image run start to end on its own
ProcessImage(proc, image_data, rfi) ==
    LET image == DecodeImage(image_data) IN
    IF ~image.ok THEN NotDetected(image)
    ELSE LET faces == detect_faces(proc, image.val) IN
    IF Len(faces) = 0 THEN NoFace
    ELSE LET largest_face == LargestFace(faces)
             aligned_face == align_face(image.val, largest_face) IN
    IF ~aligned_face.ok THEN NotDetected(aligned_face)
    ELSE LET quality_score == assess_face_quality(aligned_face.val) IN
    IF ~quality_score.ok THEN NotDetected(quality_score)
    ELSE LET face_input == preprocess_face(aligned_face.val) IN
    IF ~face_input.ok THEN NotDetected(face_input)
    ELSE LET embedding == get_embedding(proc, face_input.val) IN
    IF ~embedding.ok THEN NotDetected(embedding)
    ELSE Detected(image.val, largest_face, aligned_face.val,
                  quality_score.val, embedding.val, rfi)

(***************************************************************************)
(* Request bodies.  get_json yields None without a JSON body, raises       *)
(* BadRequest on text that is not JSON, and otherwise any JSON value.      *)
(***************************************************************************)
Absent == [t |-> "absent"]
Malformed == [t |-> "malformed"]
Obj(keys, action, imageData, rfi) ==
    [t |-> "object", keys |-> keys, action |-> action,
     imageData |-> imageData, returnFaceImage |-> rfi]
Arr(elems) == [t |-> "array", elems |-> elems]
Text(s) == [t |-> "string", text |-> s]

ImagePayloads ==
    {Str(JpegPayload(k)) : k \in ImageIds}
    \cup {Str(DataUriJpeg \o JpegPayload("A")), Str(DataUriPng \o JpegPayload("A")),
          Str(DataUriJpeg \o JpegPayload("B")),
          Str(<<"Z", "Z", "Z", "Z">>), Str(<<"/", "9", "j">>),
          Str(<<"/", "9", "j", "/", "A">>), Str(<< >>), Num(5)}

Bodies ==
    {Absent, Malformed,
     Obj({}, "None", None, FALSE),
     Obj({"foo"}, "None", None, FALSE),
     Obj({"action"}, "register", None, FALSE),
     Obj({"action", "embedding"}, "register", None, FALSE),
     Obj({"action", "embedding", "userId"}, "register", None, FALSE),
     Obj({"action", "embedding", "userId"}, "verify", None, FALSE),
     Arr({}), Arr({"imageData"}), Arr({"foo"}),
     Text("imageData"), Text("foo"), Num(5), Num(0)}
    \cup {Obj({"imageData"}, "None", p, FALSE) : p \in ImagePayloads}
    \cup {Obj({"imageData", "returnFaceImage"}, "None", Str(JpegPayload(k)), TRUE) :
            k \in {"A", "B"}}
    \cup {Obj({"imageData", "action", "embedding", "userId"}, "register",
              Str(JpegPayload("A")), FALSE)}

\* request.get_json()
get_json(body) ==
    CASE body.t = "absent"    -> Ok(None)
      [] body.t = "malformed" -> Raise("BadRequest", "Failed to decode JSON object")
      [] OTHER                -> Ok(body)

\* Python truth value of a JSON value
Truthy(data) ==
    CASE data = None         -> FALSE
      [] data.t = "object"   -> data.keys # {}
      [] data.t = "array"    -> data.elems # {}
      [] data.t = "string"   -> data.text # ""
      [] data.t = "int"      -> data.num # 0

\* key in data: dict key, list element, substring of a str; TypeError on int
Contains(data, key) ==
    CASE data.t = "object" -> Ok(key \in data.keys)
      [] data.t = "array"  -> Ok(key \in data.elems)
      [] data.t = "string" -> Ok(key = data.text)
      [] data.t = "int"    -> Raise("TypeError", "argument of type 'int' is not iterable")

\* data[key] and data.get(key): only a dict has them with a str key
Subscript(data) ==
    IF data.t = "object" THEN Ok(data)
    ELSE Raise("TypeError", "indices must be integers")

Response(status, error) == [status |-> status, error |-> error]

\* process_face lines 399-404
ServerError == Response(500, "Face processing failed")

Frame0 ==
    [pc |-> "idle", body |-> None, image_data |-> None,
     return_face_image |-> FALSE, image |-> None, faces |-> << >>,
     largest_face |-> << >>, aligned_face |-> None,
     quality_score |-> Rat(0, 1), face_input |-> None, embedding |-> << >>,
     result |-> None, response |-> None, calls |-> << >>]

\* an except clause that names ValueError only: other faults leave the call
CatchValueErrorOnly(r, e) ==
    IF e.type = "ValueError"
    THEN [r EXCEPT !.pc = "return", !.result = NotDetected(e)]
    ELSE [r EXCEPT !.pc = "propagated"]

\* process_image's except clause: every Exception becomes a result record
Catch(r, e) == [r EXCEPT !.pc = "return", !.result = NotDetected(e)]

\* process_face lines 362-372 and 382-397: up to the call of process_image
Dispatch(r, body) ==
    LET data == get_json(body)
        r1   == [r EXCEPT !.body = body, !.pc = "responded"]
    IN
    IF ~data.ok THEN [r1 EXCEPT !.response = ServerError]
    ELSE IF ~Truthy(data.val)
    THEN [r1 EXCEPT !.response = Response(400, "No data provided")]
    ELSE LET hasImage == Contains(data.val, "imageData") IN
    IF ~hasImage.ok THEN [r1 EXCEPT !.response = ServerError]
    ELSE IF hasImage.val
    THEN IF ~Subscript(data.val).ok
         THEN [r1 EXCEPT !.response = ServerError]
         ELSE [r1 EXCEPT !.pc = "decode",
                         !.image_data = data.val.imageData,
                         !.return_face_image = data.val.returnFaceImage,
                         !.calls = <<"process_image">>]
    ELSE IF ~Subscript(data.val).ok
    THEN [r1 EXCEPT !.response = ServerError]
    ELSE IF /\ data.val.action = "register"
            /\ "embedding" \in data.val.keys
            /\ "userId" \in data.val.keys
    THEN [r1 EXCEPT !.response = Response(200, "None")]
    ELSE [r1 EXCEPT !.response = Response(400, "Invalid request")]

\* process_face lines 374-380 on the result process_image returned
Answer(result) ==
    IF ~result.face_detected
    THEN Response(400, "No face detected or face quality too low")
    ELSE Response(200, "None")

(***************************************************************************)
(* Serving: one action per step of process_face / process_image.           *)
(***************************************************************************)
Accept(w, bodies) ==
    /\ req[w].pc = "idle"
    /\ \E body \in bodies : req' = [req EXCEPT ![w] = Dispatch(req[w], body)]
    /\ UNCHANGED <<fp, probe>>

ProcessFace(w) == Accept(w, Bodies)

Decode(w) ==
    /\ req[w].pc = "decode"
    /\ LET image == DecodeImage(req[w].image_data) IN
       req' = [req EXCEPT ![w] =
                 IF image.ok THEN [@ EXCEPT !.image = image.val, !.pc = "detect"]
                 ELSE Catch(@, image)]
    /\ UNCHANGED <<fp, probe>>

\* process_image lines 270-278 on a non-empty detection
FacesFound(r, faces) ==
    [r EXCEPT !.faces = faces, !.pc = "select", !.calls = Append(@, "detect_faces")]

NoEarlyReturn(r, faces) ==
    IF Len(faces) = 0
    THEN Catch([r EXCEPT !.faces = faces, !.calls = Append(@, "detect_faces")],
               Raise("ValueError", "max() arg is an empty sequence"))
    ELSE FacesFound(r, faces)

\* process_image lines 270-278
AfterDetect(r, faces) ==
    IF Len(faces) = 0
    THEN [r EXCEPT !.faces = faces, !.pc = "return", !.result = NoFace,
                   !.calls = Append(@, "detect_faces")]
    ELSE FacesFound(r, faces)

DetectFaces(w) ==
    /\ req[w].pc = "detect"
    /\ req' = [req EXCEPT ![w] = AfterDetect(@, detect_faces(fp, req[w].image))]
    /\ UNCHANGED <<fp, probe>>

SelectLargest(w) ==
    /\ req[w].pc = "select"
    /\ req' = [req EXCEPT ![w].largest_face = LargestFace(req[w].faces),
                          ![w].pc = "align"]
    /\ UNCHANGED <<fp, probe>>

AlignFace(w) ==
    /\ req[w].pc = "align"
    /\ LET face == align_face(req[w].image, req[w].largest_face)
           r    == [req[w] EXCEPT !.calls = Append(@, "align_face")] IN
       req' = [req EXCEPT ![w] =
                 IF face.ok THEN [r EXCEPT !.aligned_face = face.val, !.pc = "score"]
                 ELSE Catch(r, face)]
    /\ UNCHANGED <<fp, probe>>

AssessQuality(w) ==
    /\ req[w].pc = "score"
    /\ LET q == assess_face_quality(req[w].aligned_face)
           r == [req[w] EXCEPT !.calls = Append(@, "assess_face_quality")] IN
       req' = [req EXCEPT ![w] =
                 IF q.ok THEN [r EXCEPT !.quality_score = q.val, !.pc = "preprocess"]
                 ELSE Catch(r, q)]
    /\ UNCHANGED <<fp, probe>>

PreprocessFace(w) ==
    /\ req[w].pc = "preprocess"
    /\ LET t == preprocess_face(req[w].aligned_face)
           r == [req[w] EXCEPT !.calls = Append(@, "preprocess_face")] IN
       req' = [req EXCEPT ![w] =
                 IF t.ok THEN [r EXCEPT !.face_input = t.val, !.pc = "embed"]
                 ELSE Catch(r, t)]
    /\ UNCHANGED <<fp, probe>>

EmbedLocal(w) ==
    /\ req[w].pc = "embed"
    /\ LET e == get_embedding(fp, req[w].face_input)
           r == [req[w] EXCEPT !.calls = Append(@, "get_embedding")] IN
       req' = [req EXCEPT ![w] =
                 IF e.ok THEN [r EXCEPT !.embedding = e.val, !.pc = "assemble"]
                 ELSE Catch(r, e)]

\* a session that is consumed by the request that runs it
GetEmbeddingConsuming(w) ==
    /\ EmbedLocal(w)
    /\ fp' = [fp EXCEPT !.session = "None"]
    /\ UNCHANGED probe

\* get_embedding reads self.session and assigns no attribute of self
GetEmbedding(w) ==
    /\ EmbedLocal(w)
    /\ UNCHANGED <<fp, probe>>

Assemble(w) ==
    /\ req[w].pc = "assemble"
    /\ req' = [req EXCEPT ![w].pc = "return",
                          ![w].result =
                              Detected(req[w].image, req[w].largest_face,
                                       req[w].aligned_face, req[w].quality_score,
                                       req[w].embedding, req[w].return_face_image)]
    /\ UNCHANGED <<fp, probe>>

Respond(w) ==
    /\ req[w].pc \in {"return", "propagated"}
    /\ req' = [req EXCEPT ![w].pc = "responded",
                          ![w].response =
                              IF req[w].pc = "propagated" THEN ServerError
                              ELSE Answer(req[w].result)]
    /\ UNCHANGED <<fp, probe>>

\* the worker thread takes the next request
Finish(w) ==
    /\ req[w].pc = "responded"
    /\ req' = [req EXCEPT ![w] = Frame0]
    /\ UNCHANGED <<fp, probe>>

Step(w) ==
    \/ Decode(w)
    \/ DetectFaces(w)
    \/ SelectLargest(w)
    \/ AlignFace(w)
    \/ AssessQuality(w)
    \/ PreprocessFace(w)
    \/ GetEmbedding(w)
    \/ Assemble(w)
    \/ Respond(w)
    \/ Finish(w)

(***************************************************************************)
(* Spec: one worker thread serving every request body of Bodies.           *)
(***************************************************************************)
MainThread == {1}

Init ==
    /\ fp = LoadedProcessor
    /\ req = [w \in MainThread |-> Frame0]
    /\ probe = None

Next == \E w \in MainThread : ProcessFace(w) \/ Step(w)

Spec == Init /\ [][Next]_vars

(***************************************************************************)
(* SpecConcurrent: NumWorkers threads of the threaded server run requests  *)
(* on the one shared processor, their steps interleaved.                   *)
(***************************************************************************)
ConcurrentBodies ==
    {Absent, Obj({"foo"}, "None", None, FALSE)}
    \cup {Obj({"imageData"}, "None", p, FALSE) :
            p \in {Str(JpegPayload("A")), Str(JpegPayload("B")), Str(JpegPayload("C")),
                   Str(<<"Z", "Z", "Z", "Z">>)}}

ProcessFaceConcurrent(w) == Accept(w, ConcurrentBodies)

InitConcurrent ==
    /\ fp = LoadedProcessor
    /\ req = [w \in Workers |-> Frame0]
    /\ probe = None

NextConcurrent == \E w \in Workers : ProcessFaceConcurrent(w) \/ Step(w)

SpecConcurrent == InitConcurrent /\ [][NextConcurrent]_vars

(***************************************************************************)
(* Properties of the serving specifications.                               *)
(***************************************************************************)
DetectedKeys ==
    {"face_detected", "embedding", "quality_score", "processing_time", "bbox",
     "image_size", "face_center", "center_offset", "box_ratio"}

NotDetectedKeys == {"face_detected", "error", "processing_time"}

WellFormed(result) ==
    /\ result # None
    /\ \/ /\ result.face_detected
          /\ DOMAIN result \in {DetectedKeys, DetectedKeys \cup {"face_image"}}
       \/ /\ ~result.face_detected
          /\ DOMAIN result = NotDetectedKeys

Invoked(r) == r.calls # << >>
Returned(r) == Invoked(r) /\ r.pc \in {"return", "responded"}
Running(r) == Invoked(r) /\ ~Returned(r)

\* the fault each picture raises, as process_image reports it
FaultMessage(k) ==
    CASE k = "F" -> "resize failed"
      [] k = "G" -> "cvtColor failed"
      [] k = "H" -> "cvtColor failed"
      [] k = "I" -> "Got invalid dimensions for input"

\* C1: whatever the input (bad base64, bytes that are no image, a step that
\* raises), process_image never lets an exception out and returns exactly one
\* record: Detected with all its fields, or NotDetected with error and
\* processing_time, the error being the fault's description; while it runs no
\* record exists yet and a step is always enabled.
C1_AlwaysOneRecord ==
    \A w \in DOMAIN req :
        LET r == req[w] IN
        /\ r.pc # "propagated"
        /\ Returned(r) => WellFormed(r.result)
        /\ Running(r) => r.result = None /\ ENABLED Step(w)
        /\ (Returned(r) /\ r.image_data \in {Str(<<"Z", "Z", "Z", "Z">>)})
              => r.result.error = "Failed to decode image"
        /\ (Returned(r) /\ r.image # None /\ r.image.id \in {"F", "G", "H", "I"})
              => /\ ~r.result.face_detected
                 /\ r.result.error = FaultMessage(r.image.id)

C1_Witness ==
    \E w \in DOMAIN req :
        /\ req[w].pc = "return"
        /\ req[w].image # None
        /\ req[w].image.id = "I"
        /\ req[w].result.error = "Got invalid dimensions for input"

UnitNorm(embedding) ==
    /\ \A i \in DOMAIN embedding : embedding[i].kind = "num"
    /\ \A i \in DOMAIN embedding :
           SumSq([j \in DOMAIN embedding |-> embedding[j].v]) = embedding[i].normSq

\* C2: a model output of norm zero makes get_embedding fail, so every
\* Detected record carries an embedding of unit norm.
C2_ZeroNormIsFault ==
    \A w \in DOMAIN req :
        (Returned(req[w]) /\ req[w].result.face_detected)
            => UnitNorm(req[w].result.embedding)

\* C3: once the detector has yielded no box (also when it raised inside),
\* process_image has returned NotDetected "No face detected in image" and
\* has called none of align, score, preprocess, embed.
C3_NoFaceReturnsAtOnce ==
    \A w \in DOMAIN req :
        LET r == req[w] IN
        (Invoked(r) /\ r.image # None /\ r.pc # "detect" /\ r.faces = << >>)
            => /\ r.pc \in {"return", "responded"}
               /\ r.result = NoFace
               /\ r.calls = <<"process_image", "detect_faces">>

C3_Witness ==
    \E w \in DOMAIN req :
        /\ req[w].pc = "return"
        /\ req[w].image # None
        /\ req[w].image.id = "E"
        /\ req[w].faces = << >>
        /\ req[w].result = NoFace

HasPrefix(s, pre) == Len(s) >= Len(pre) /\ SubSeq(s, 1, Len(pre)) = pre

SameOutcome(a, b) ==
    /\ a.face_detected = b.face_detected
    /\ a.face_detected => a.bbox = b.bbox /\ a.embedding = b.embedding

\* C5: a payload behind a data-URI prefix gives the outcome of the payload
\* alone.
C5_DataUriSameOutcome ==
    \A w \in DOMAIN req :
        LET r == req[w] IN
        (Returned(r) /\ r.image_data.t = "str" /\ HasPrefix(r.image_data.chars, DataUriJpeg))
            => SameOutcome(r.result,
                           ProcessImage(LoadedProcessor,
                                        Str(SubSeq(r.image_data.chars, Len(DataUriJpeg) + 1,
                                                   Len(r.image_data.chars))),
                                        r.return_face_image))

Observable(result) ==
    IF result.face_detected
    THEN <<TRUE, result.embedding, result.bbox, result.quality_score>>
    ELSE <<FALSE, result.error>>

HasImageData(body) == body.t = "object" /\ "imageData" \in body.keys

CompleteRegister(body) ==
    /\ body.t = "object"
    /\ body.action = "register"
    /\ {"embedding", "userId"} \subseteq body.keys

JsonValue(body) == body.t \in {"object", "array", "string", "int"}

\* C10: a POST without usable body gets 400 "No data provided", a JSON body
\* with neither imageData nor a complete register action gets 400 "Invalid
\* request", both without process_image; process_image runs only on a body
\* with imageData, and its NotDetected is answered 400.
C10_InvalidBodiesGet400 ==
    \A w \in DOMAIN req :
        LET r == req[w] IN
        /\ Invoked(r) => HasImageData(r.body)
        /\ r.pc = "responded" =>
             /\ (r.body.t = "absent" \/ (JsonValue(r.body) /\ ~Truthy(r.body)))
                   => r.response = Response(400, "No data provided") /\ ~Invoked(r)
             /\ (JsonValue(r.body) /\ Truthy(r.body) /\ ~HasImageData(r.body)
                   /\ ~CompleteRegister(r.body))
                   => r.response = Response(400, "Invalid request") /\ ~Invoked(r)
             /\ (Invoked(r) /\ ~r.result.face_detected) => r.response.status = 400

(***************************************************************************)
(* SpecSelect: the selection of process_image applied to every sequence of *)
(* up to MaxFaces boxes with sides up to MaxSide.                          *)
(***************************************************************************)
SelectBoxes == {Box(x, 0, w, h) : x \in 0..1, w \in 1..MaxSide, h \in 1..MaxSide}

FaceSeqs == UNION {[1..n -> SelectBoxes] : n \in 1..MaxFaces}

SelectImage == [id |-> "A", W |-> MaxSide + 1, H |-> MaxSide]

InitSelect ==
    /\ fp = LoadedProcessor
    /\ req = [w \in MainThread |-> Frame0]
    /\ probe \in {[fn |-> "select", stage |-> "in", image |-> SelectImage,
                   faces |-> f, aligned_face |-> None, bbox |-> << >>] :
                     f \in FaceSeqs}

\* process_image lines 280-284 and 296-309
SelectProbe ==
    /\ probe.stage = "in"
    /\ LET largest_face == LargestFace(probe.faces)
           aligned_face == align_face(probe.image, largest_face)
       IN  probe' = [probe EXCEPT
                       !.stage = "out",
                       !.aligned_face = aligned_face.val,
                       !.bbox = Detected(probe.image, largest_face, aligned_face.val,
                                         Rat(0, 1), << >>, FALSE).bbox]
    /\ UNCHANGED <<fp, req>>

SpecSelect == InitSelect /\ [][SelectProbe]_vars

MaxArea(faces) ==
    CHOOSE a \in {Area(faces[i]) : i \in DOMAIN faces} :
        \A i \in DOMAIN faces : Area(faces[i]) <= a

FirstOfArea(faces, a) ==
    CHOOSE i \in DOMAIN faces :
        /\ Area(faces[i]) = a
        /\ \A j \in DOMAIN faces : Area(faces[j]) = a => i <= j

\* C4: the box aligned and reported as bbox has the maximum area w*h and,
\* among the boxes of that area, is the first in the detector's order.
C4_LargestFirst ==
    probe.stage = "out" =>
        LET first == probe.faces[FirstOfArea(probe.faces, MaxArea(probe.faces))] IN
        /\ \A i \in DOMAIN probe.faces : Area(probe.faces[i]) <= Area(probe.bbox)
        /\ probe.bbox = first
        /\ probe.aligned_face.crop.x1 <= first[1]
        /\ probe.aligned_face.crop.x2 >= first[1] + first[3]
        /\ probe.aligned_face.crop.y2 >= first[4]

C4_Witness ==
    /\ probe # None
    /\ probe.stage = "out"
    /\ Len(probe.faces) = 3
    /\ Area(probe.faces[1]) < Area(probe.faces[2])
    /\ Area(probe.faces[2]) = Area(probe.faces[3])
    /\ probe.faces[2] # probe.faces[3]
    /\ probe.bbox = probe.faces[2]

(***************************************************************************)
(* SpecQuality: the score of assess_face_quality over the statistics of a  *)
(* grayscale crop: any mean of 8-bit pixels, samples of the deviation and  *)
(* of the Laplacian variance on both sides of the clamps.                  *)
(***************************************************************************)
LapSamples == {0, 1, 500, 999, 1000, 1001, 4000, 65025}
StdSamples == {0, 1, 32, 63, 64, 65, 127}

InitQuality ==
    /\ fp = LoadedProcessor
    /\ req = [w \in MainThread |-> Frame0]
    /\ probe \in {[fn |-> "quality", stage |-> "in",
                   stats |-> [lap |-> l, mean |-> m, std |-> d],
                   brightness_score |-> Rat(0, 1),
                   quality_score |-> Rat(0, 1)] :
                     l \in LapSamples, m \in 0..MaxGray, d \in StdSamples}

ScoreProbe ==
    /\ probe.stage = "in"
    /\ probe' = [probe EXCEPT !.stage = "out",
                              !.brightness_score = BrightnessScore(probe.stats.mean),
                              !.quality_score = QualityScore(probe.stats)]
    /\ UNCHANGED <<fp, req>>

SpecQuality == InitQuality /\ [][ScoreProbe]_vars

\* C7: the quality score of every aligned face lies in [0, 1].
C7_ScoreInUnitInterval ==
    probe.stage = "out" =>
        /\ probe.quality_score.d > 0
        /\ RatLE(Rat(0, 1), probe.quality_score)
        /\ RatLE(probe.quality_score, Rat(1, 1))

C7_Witness ==
    /\ probe # None
    /\ probe.stage = "out"
    /\ probe.stats.lap > SharpnessNorm
    /\ probe.stats.std > ContrastNorm
    /\ RatEQ(probe.quality_score, Rat(1, 1))

\* C11 as stated: the brightness term is 1 only at mean 128 and is 0 at
\* both extremes, mean 0 and mean 255.
C11_ZeroAtBothExtremes ==
    probe.stage = "out" =>
        /\ RatEQ(probe.brightness_score, Rat(1, 1)) <=> probe.stats.mean = MidGray
        /\ probe.stats.mean \in {0, MaxGray} => RatEQ(probe.brightness_score, Rat(0, 1))

\* C11 amended: over means 0..255 the brightness term lies in [0, 1], is 1
\* only at mean 128, is 0 only at mean 0 (pure black), and at mean 255 (pure
\* white) it is 1/128.
C11_PeakAtMidGray ==
    probe.stage = "out" =>
        /\ probe.brightness_score.d > 0
        /\ RatLE(Rat(0, 1), probe.brightness_score)
        /\ RatLE(probe.brightness_score, Rat(1, 1))
        /\ RatEQ(probe.brightness_score, Rat(1, 1)) <=> probe.stats.mean = MidGray
        /\ RatEQ(probe.brightness_score, Rat(0, 1)) <=> probe.stats.mean = 0
        /\ probe.stats.mean = MaxGray => RatEQ(probe.brightness_score, Rat(1, 128))

C11_Witness ==
    /\ probe # None
    /\ probe.stage = "out"
    /\ probe.stats.mean = MaxGray
    /\ RatEQ(probe.brightness_score, Rat(1, 128))

(***************************************************************************)
(* SpecGeometry: align_face and the layout metrics of process_image on     *)
(* every box with positive sides inside an image of up to MaxDim x MaxDim. *)
(***************************************************************************)
BoxesIn(W, H) ==
    {Box(x, y, w, h) : x \in 0..(W - 1), y \in 0..(H - 1), w \in 1..W, h \in 1..H}

InitGeometry ==
    /\ fp = LoadedProcessor
    /\ req = [w \in MainThread |-> Frame0]
    /\ \E W \in 1..MaxDim, H \in 1..MaxDim :
         \E rect \in {b \in BoxesIn(W, H) : b[1] + b[3] <= W /\ b[2] + b[4] <= H} :
            probe = [fn |-> "geometry", stage |-> "in",
                     image |-> [id |-> "A", W |-> W, H |-> H], rect |-> rect,
                     aligned_face |-> None, center_offset |-> << >>,
                     box_ratio |-> Rat(0, 1)]

AlignProbe ==
    /\ probe.stage = "in"
    /\ probe' = [probe EXCEPT !.stage = "aligned",
                              !.aligned_face = align_face(probe.image, probe.rect)]
    /\ UNCHANGED <<fp, req>>

MetricsProbe ==
    /\ probe.stage = "in"
    /\ LET result == Detected(probe.image, probe.rect, None, Rat(0, 1), << >>, FALSE)
       IN  probe' = [probe EXCEPT !.stage = "measured",
                                  !.center_offset = result.center_offset,
                                  !.box_ratio = result.box_ratio]
    /\ UNCHANGED <<fp, req>>

NextGeometry == AlignProbe \/ MetricsProbe

SpecGeometry == InitGeometry /\ [][NextGeometry]_vars

Half == Rat(1, 2)
MinusHalf == Rat(-1, 2)

C9_CropInsideAndFixedSize ==
    probe.stage = "aligned" =>
        LET x == probe.rect[1]
            y == probe.rect[2]
            w == probe.rect[3]
            h == probe.rect[4]
            W == probe.image.W
            H == probe.image.H
            p == CHOOSE q \in 0..Min(w, h) : 5 * q <= Min(w, h) /\ Min(w, h) < 5 * (q + 1)
        IN  /\ probe.aligned_face.ok
            /\ LET c == probe.aligned_face.val.crop IN
               /\ c.x1 = Max(0, x - p) /\ c.x2 = Min(W, x + w + p)
               /\ c.y1 = Max(0, y - p) /\ c.y2 = Min(H, y + h + p)
               /\ 0 <= c.x1 /\ c.x1 < c.x2 /\ c.x2 <= W
               /\ 0 <= c.y1 /\ c.y1 < c.y2 /\ c.y2 <= H
               /\ c.x1 <= x /\ x + w <= c.x2
               /\ c.y1 <= y /\ y + h <= c.y2
            /\ probe.aligned_face.val.width = FaceSize
            /\ probe.aligned_face.val.height = FaceSize

C9_Witness ==
    /\ probe # None
    /\ probe.stage = "aligned"
    /\ Padding(probe.rect[3], probe.rect[4]) >= 1
    /\ probe.rect[1] = 0
    /\ probe.rect[2] >= 1
    /\ probe.rect[2] + probe.rect[4] < probe.image.H
    /\ probe.aligned_face.val.crop.y1 < probe.rect[2]
    /\ probe.aligned_face.val.crop.y2 > probe.rect[2] + probe.rect[4]
    /\ probe.aligned_face.val.width = FaceSize

====
